---- MODULE Spec2Model ----
(***************************************************************************)
(* Table assignment for league schedules: the assignment engines of        *)
(* tableAssignments_v1.py (greedy, penalty scores), tableAssignments_v2.py *)
(* (greedy, ranked per match) and tableAssignments_v3.py (permutation      *)
(* search), as state machines, and the first variant tableAssignments.py   *)
(* (definitions v0_...).                                                   *)
(*                                                                         *)
(* A team is a number 1..MaxTeams, a table a number 1..cfg_tables.  The    *)
(* programs compare teams and tables only for equality, so a schedule is   *)
(* taken up to renaming of teams: teams are numbered in the order of their *)
(* first appearance in the file.  The bye team is any team id or none.     *)
(*                                                                         *)
(* The schedule files come from two families: files of up to MaxWeeks      *)
(* weeks, and wide files of a single week with more matches and tables.    *)
(* tableAssignments_v3.py is also run on files that repeat one week.       *)
(***************************************************************************)
EXTENDS Integers, Sequences, FiniteSets, TLC

\* ---- bounds of the model ------------------------------------------------
MaxTeams == 4          \* teams of a schedule
MaxMatches == 2        \* matches of one week
MaxWeeks == 2          \* weeks of a schedule
MaxScheduleMatches == 4 \* matches of a whole schedule
MaxTables == 2         \* tables of the configuration
WideTeams == 6         \* teams of a single-week schedule
WideMatches == 3       \* matches of a single-week schedule
WideTables == 3        \* tables of the configuration of a single-week schedule
RepeatWeeks == 3       \* weeks of a schedule that repeats one week
ScoreHistory == 3      \* matches assigned before a call of find_best_table is scored
ScoreWeeks == 4        \* total_weeks of the week whose match is scored

\* ---- values ----------------------------------------------------------------
\* Python's None for Match.assigned_table and for bye_team_id.
NoTable == 0
NoBye == 0

NumTeamIds == IF WideTeams > MaxTeams THEN WideTeams ELSE MaxTeams

Teams == 1..NumTeamIds

\* TableAssignmentManager has the same attributes in tableAssignments_v1.py and in
\* tableAssignments_v2.py; the variables below hold them for whichever of the two
\* programs a specification runs.
VARIABLES
    csv_rows,      \* the schedule file: one row per week, a row is a sequence of <<home, away>>
    cfg_tables,    \* number of entries of config["table_ids"]
    cfg_bye,       \* config["bye_team_id"], NoBye when there is none
    pc,            \* "new", "ready" (constructed), "done", "failed"
    error,         \* "none" or the exception that ended the run
    failed_week,   \* index of the week whose assign_tables raised, 0 if none
    bye_team_id,   \* TableAssignmentManager.bye_team_id
    num_teams,     \* TableAssignmentManager.num_teams
    tables,        \* TableAssignmentManager.tables: table -> [team_usage, last_used_by]
    weeks,         \* Schedule.weeks: sequence of [matches, available_tables]
    week_idx,      \* number of weeks assign_all_tables has gone through
    run_no,        \* 1 for the first run of the program, 2 for the rerun
    first_run,     \* what the first run produced, <<>> before a rerun
    \* tableAssignments_v3.py
    cfg_team_ids,  \* config["team_ids"]: the team directory
    first_week_id, \* the week id of the first row of the file
    v3_pc,         \* "new", "ready", "done", "failed"
    v3_error,      \* "none" or the exception that ended the run
    v3_failed_week, \* index of the week whose assign_tables raised, 0 if none
    v3_teams,      \* Team.tables_assigned of every team of the directory
    v3_weeks,      \* Schedule.weeks: sequence of [week_id, matches]
    v3_week_idx,   \* number of weeks assign_all_tables has gone through
    v3_infeasible, \* the weeks for which assign_tables_to_matches returned False
    \* tableAssignments.py
    v0_pc,         \* "new", "ready" (schedule read), "done", "failed"
    v0_error,      \* "none" or the exception that ended assign_tables
    v0_schedule,   \* the list read_schedule returned and assign_tables was given
    v0_assignments, \* the list assignments of assign_tables
    v0_usage,      \* table_usage_count: team -> table -> count
    v0_history     \* table_history: team -> the tables it was given, oldest first

v2vars == <<pc, error, failed_week, bye_team_id, num_teams, tables, weeks, week_idx,
            run_no, first_run>>

v3vars == <<v3_pc, v3_error, v3_failed_week, v3_teams, v3_weeks, v3_week_idx,
            v3_infeasible>>

v0vars == <<v0_pc, v0_error, v0_schedule, v0_assignments, v0_usage, v0_history>>

inputs == <<csv_rows, cfg_tables, cfg_bye, cfg_team_ids, first_week_id>>

vars == <<inputs, v2vars, v3vars, v0vars>>

\* ---- inputs ------------------------------------------------------------------
SetMax(S) == CHOOSE x \in S : \A y \in S : y <= x

MatchStrings(T) == {m \in (1..T) \X (1..T) : m[1] # m[2]}

TeamsOfRow(row) == UNION {{row[i][1], row[i][2]} : i \in 1..Len(row)}

\* The rows of n matches between T teams; a team plays once in a week.
RECURSIVE RowsOfLen(_, _)
RowsOfLen(n, T) ==
    IF n = 0 THEN {<<>>}
    ELSE {Append(p[1], p[2]) :
            p \in {q \in RowsOfLen(n - 1, T) \X MatchStrings(T) :
                     {q[2][1], q[2][2]} \cap TeamsOfRow(q[1]) = {}}}

Rows == UNION {RowsOfLen(n, MaxTeams) : n \in 1..MaxMatches}

RECURSIVE FlatRow(_)
FlatRow(row) ==
    IF row = <<>> THEN <<>> ELSE <<row[1][1], row[1][2]>> \o FlatRow(Tail(row))

RECURSIVE FlatRows(_)
FlatRows(rs) == IF rs = <<>> THEN <<>> ELSE FlatRow(rs[1]) \o FlatRows(Tail(rs))

\* Teams are numbered in the order of their first appearance.
FirstAppearanceOrder(s) ==
    \A i \in 1..Len(s) : s[i] <= 1 + SetMax({0} \cup {s[j] : j \in 1..(i - 1)})

RECURSIVE SchedulesOfLen(_)
SchedulesOfLen(n) ==
    IF n = 0 THEN {<<>>}
    ELSE {Append(p[1], p[2]) :
            p \in {q \in SchedulesOfLen(n - 1) \X Rows :
                     /\ Len(FlatRows(Append(q[1], q[2]))) <= 2 * MaxScheduleMatches
                     /\ FirstAppearanceOrder(FlatRows(Append(q[1], q[2])))}}

Schedules == UNION {SchedulesOfLen(n) : n \in 1..MaxWeeks}

WideSchedules ==
    {<<row>> : row \in {r \in UNION {RowsOfLen(n, WideTeams) : n \in 1..WideMatches} :
                           FirstAppearanceOrder(FlatRow(r))}}

\* The same week in every row of the file.
RepeatedSchedules ==
    {[w \in 1..n |-> row] : n \in 1..RepeatWeeks,
                            row \in {r \in Rows : FirstAppearanceOrder(FlatRow(r))}}

\* ---- Table ---------------------------------------------------------------------
NewTable == [team_usage |-> [t \in Teams |-> 0], last_used_by |-> <<>>]

add_team(table, team) ==
    [team_usage |-> [table.team_usage EXCEPT ![team] = @ + 1],
     last_used_by |-> Append(table.last_used_by, team)]

get_usage(table, team) == table.team_usage[team]

RECURSIVE SumUpTo(_, _)
SumUpTo(f, n) == IF n = 0 THEN 0 ELSE f[n] + SumUpTo(f, n - 1)

get_total_usage(table) == SumUpTo(table.team_usage, NumTeamIds)

\* The while loop of was_recently_used_by; -1 stands for the IndexError the
\* subscript raises when the whole list consists of the team.
IndexError == -1

RECURSIVE recent_loop(_, _, _)
recent_loop(last, team, recent_usage) ==
    IF last = <<>> THEN recent_usage
    ELSE IF recent_usage + 1 > Len(last) THEN IndexError
    ELSE IF team = last[Len(last) - recent_usage]
         THEN recent_loop(last, team, recent_usage + 1)
         ELSE recent_usage

was_recently_used_by(table, team) == recent_loop(table.last_used_by, team, 0)

\* ---- Match -----------------------------------------------------------------------
NewMatch(m) == [home_team |-> m[1], away_team |-> m[2], assigned_table |-> NoTable]

\* assign_table that records the home team only.
assign_table_home_only(tabs, t, match) ==
    [tabs EXCEPT ![t] = add_team(@, match.home_team)]

\* assign_table that records the match on every table of the venue.
assign_table_every_table(tabs, t, match) ==
    [u \in DOMAIN tabs |-> add_team(add_team(tabs[u], match.home_team), match.away_team)]

\* The effect of Match.assign_table on the tables.
assign_table(tabs, t, match) ==
    [tabs EXCEPT ![t] = add_team(add_team(@, match.home_team), match.away_team)]

\* ---- Week ------------------------------------------------------------------------
NewWeek(row) ==
    [matches |-> [i \in 1..Len(row) |-> NewMatch(row[i])], available_tables |-> {}]

\* The bye test looking at the home team only.
is_bye_match_home_only(match, bye) == match.home_team = bye

\* Line 84: either team of the match is the bye team.
is_bye_match(match, bye) == match.home_team = bye \/ match.away_team = bye

\* Python's tuple comparison current_value < min_value.
TupleLess(a, b) ==
    \/ a[1] < b[1]
    \/ a[1] = b[1] /\ a[2] < b[2]
    \/ a[1] = b[1] /\ a[2] = b[2] /\ a[3] < b[3]

\* Line 105: the usage of the two teams relative to the table's total usage.
match_usage(table, match) ==
    IF get_total_usage(table) > 0
    THEN (get_usage(table, match.home_team) + get_usage(table, match.away_team))
             \div get_total_usage(table)
    ELSE 0

recently_used(table, match) ==
    was_recently_used_by(table, match.home_team)
        + was_recently_used_by(table, match.away_team)

total_usage(table, match) ==
    get_usage(table, match.home_team) + get_usage(table, match.away_team)

\* A ranking that tells no table from another.
current_value_flat(table, match) == <<0, 0, 0>>

current_value(table, match) ==
    <<recently_used(table, match), match_usage(table, match), total_usage(table, match)>>

RaisesIndexError(table, match) ==
    \/ was_recently_used_by(table, match.home_team) = IndexError
    \/ was_recently_used_by(table, match.away_team) = IndexError

\* The loop of lines 114-131 over the available tables in iteration order.
RECURSIVE best_loop(_, _, _, _, _, _)
best_loop(avail, i, tabs, match, best_table, min_value) ==
    IF i > Len(avail) THEN best_table
    ELSE IF RaisesIndexError(tabs[avail[i]], match) THEN IndexError
    ELSE IF best_table = NoTable \/ TupleLess(current_value(tabs[avail[i]], match), min_value)
         THEN best_loop(avail, i + 1, tabs, match, avail[i],
                        current_value(tabs[avail[i]], match))
         ELSE best_loop(avail, i + 1, tabs, match, best_table, min_value)

\* avail is the set available_tables in the order the for loop iterates it.
find_best_table(avail, tabs, match) ==
    IF avail = <<>> THEN NoTable
    ELSE best_loop(avail, 1, tabs, match, NoTable, <<0, 0, 0>>)

\* available_tables.remove left out.
SeqKeepAll(s, x) == s

\* Line 90: available_tables.remove(best_table), the iteration order kept.
SeqWithout(s, x) == SelectSeq(s, LAMBDA y : y # x)

SeqRange(s) == {s[i] : i \in 1..Len(s)}

\* The loop of lines 83-92 from match i on.  The result is the state the loop
\* leaves behind and the exception that ended it, if any.
RECURSIVE match_loop(_, _, _, _, _)
match_loop(i, matches, tabs, avail, bye) ==
    IF i > Len(matches)
    THEN [matches |-> matches, tables |-> tabs, avail |-> avail, error |-> "none"]
    ELSE IF is_bye_match(matches[i], bye)
    THEN match_loop(i + 1, matches, tabs, avail, bye)
    ELSE LET best_table == find_best_table(avail, tabs, matches[i]) IN
         IF best_table = IndexError
         THEN [matches |-> matches, tables |-> tabs, avail |-> avail,
               error |-> "index_error"]
         ELSE IF best_table = NoTable
         THEN [matches |-> matches, tables |-> tabs, avail |-> avail,
               error |-> "no_table"]
         ELSE match_loop(i + 1,
                         [matches EXCEPT ![i].assigned_table = best_table],
                         assign_table(tabs, best_table, matches[i]),
                         SeqWithout(avail, best_table), bye)

\* Week.assign_tables: order is the iteration order of set(table_list).
assign_tables(week, tabs, order, bye) == match_loop(1, week.matches, tabs, order, bye)

\* The iteration orders of a set of n tables.
TableOrders(n) == {s \in [1..n -> 1..n] : \A i, j \in 1..n : s[i] = s[j] => i = j}

\* ---- TableAssignmentManager ------------------------------------------------------
\* Lines 194-200 of initialize_tables, with the num_teams it reads.
initialize_tables_raises(n_table_ids, bye, n_teams) ==
    n_table_ids + (IF bye # NoBye THEN 1 ELSE 0) < n_teams \div 2

\* The first pass of read_schedule: the set of teams of the file.
teams_of_rows(rows) == UNION {TeamsOfRow(rows[i]) : i \in 1..Len(rows)}

\* read_schedule without the parity test.
read_schedule_never_raises(n_teams) == FALSE

\* Lines 246-248: the parity test on the number of teams of the file.
read_schedule_raises(n_teams) == n_teams % 2 # 0

V2Start ==
    /\ pc = "new"
    /\ error = "none"
    /\ failed_week = 0
    /\ bye_team_id = NoBye
    /\ num_teams = 0
    /\ tables = <<>>
    /\ weeks = <<>>
    /\ week_idx = 0
    /\ run_no = 1
    /\ first_run = <<>>

V3Start ==
    /\ v3_pc = "new"
    /\ v3_error = "none"
    /\ v3_failed_week = 0
    /\ v3_teams = <<>>
    /\ v3_weeks = <<>>
    /\ v3_week_idx = 0
    /\ v3_infeasible = {}

\* tableAssignments.py: line 27, the tables "1-2", "3-4", "5-6", "7-8" as 1..4.
table_pairs == <<1, 2, 3, 4>>

V0Start ==
    /\ v0_pc = "new"
    /\ v0_error = "none"
    /\ v0_schedule = <<>>
    /\ v0_assignments = <<>>
    /\ v0_usage = [team \in Teams |-> [t \in SeqRange(table_pairs) |-> 0]]
    /\ v0_history = [team \in Teams |-> <<>>]

\* tableAssignments_v2.py reads week ids and the team directory for display only.
Init ==
    /\ \/ /\ csv_rows \in Schedules
          /\ cfg_tables \in 1..MaxTables
          /\ cfg_bye \in {NoBye} \cup (1..MaxTeams)
       \/ /\ csv_rows \in WideSchedules
          /\ cfg_tables \in 1..WideTables
          /\ cfg_bye \in {NoBye} \cup (1..WideTeams)
    /\ cfg_team_ids = Teams
    /\ first_week_id = 1
    /\ V2Start
    /\ V3Start
    /\ V0Start

\* TableAssignmentManager.__init__: initialize_team_names, initialize_tables,
\* read_schedule, in this order.
Construct ==
    /\ pc = "new"
    /\ bye_team_id' = cfg_bye
    /\ IF initialize_tables_raises(cfg_tables, cfg_bye, num_teams)
       THEN /\ pc' = "failed"
            /\ error' = "not_enough_tables"
            /\ UNCHANGED <<num_teams, tables, weeks>>
       ELSE /\ tables' = [t \in 1..cfg_tables |-> NewTable]
            /\ num_teams' = Cardinality(teams_of_rows(csv_rows))
            /\ IF read_schedule_raises(num_teams')
               THEN /\ pc' = "failed"
                    /\ error' = "odd_teams"
                    /\ UNCHANGED weeks
               ELSE /\ pc' = "ready"
                    /\ error' = "none"
                    /\ weeks' = [w \in 1..Len(csv_rows) |-> NewWeek(csv_rows[w])]
    /\ UNCHANGED <<inputs, v0vars, v3vars, failed_week, week_idx, run_no, first_run>>

\* A loop that swallows the exception of a week and goes on.
after_week_swallowed(err, w, n_weeks) == IF w = n_weeks THEN "done" ELSE "ready"

\* What the loop of assign_all_tables does after a week: an exception ends the run.
after_week(err, w, n_weeks) ==
    IF err # "none" THEN "failed" ELSE IF w = n_weeks THEN "done" ELSE "ready"

\* One iteration of assign_all_tables: Week.assign_tables of the next week.
AssignWeek(order) ==
    \E w \in {week_idx + 1} : \E r \in {assign_tables(weeks[w], tables, order, bye_team_id)} :
       /\ weeks' = [weeks EXCEPT ![w] = [matches |-> r.matches,
                                          available_tables |-> SeqRange(r.avail)]]
       /\ tables' = r.tables
       /\ week_idx' = w
       /\ error' = r.error
       /\ failed_week' = IF r.error # "none" THEN w ELSE failed_week
       /\ pc' = after_week(r.error, w, Len(weeks))
       /\ UNCHANGED <<inputs, v0vars, v3vars, bye_team_id, num_teams, run_no, first_run>>

AssignNextWeek ==
    /\ pc = "ready"
    /\ week_idx < Len(weeks)
    /\ \E order \in TableOrders(cfg_tables) : AssignWeek(order)

Next == Construct \/ AssignNextWeek

Spec == Init /\ [][Next]_vars

\* The program is started again on the same schedule file and configuration: main
\* builds a new TableAssignmentManager, whose tables and matches start empty.  What
\* the first run assigned is kept in first_run.
Rerun ==
    /\ pc \in {"done", "failed"}
    /\ run_no = 1
    /\ run_no' = 2
    /\ first_run' = weeks
    /\ pc' = "new"
    /\ error' = "none"
    /\ failed_week' = 0
    /\ bye_team_id' = NoBye
    /\ num_teams' = 0
    /\ tables' = <<>>
    /\ weeks' = <<>>
    /\ week_idx' = 0
    /\ UNCHANGED <<inputs, v0vars, v3vars>>

NextRerun == Construct \/ AssignNextWeek \/ Rerun

SpecRerun == Init /\ [][NextRerun]_vars

\* ---- tableAssignments_v1.py --------------------------------------------------------
\* Table, Match and the constructor of TableAssignmentManager read as in
\* tableAssignments_v2.py (NewTable, add_team, get_usage, NewMatch, assign_table,
\* initialize_tables_raises, read_schedule_raises); Week and its scoring differ.

\* Reading an attribute the object does not have.
AttributeError == -2

\* Week.__init__: the attributes a Week has; total_tables is None (0) until
\* assign_tables sets it.
v1_NewWeek(row, bye, n_teams, n_weeks) ==
    [matches |-> [i \in 1..Len(row) |-> NewMatch(row[i])], available_tables |-> {},
     num_teams |-> n_teams, bye_team_id |-> bye, total_weeks |-> n_weeks,
     total_tables |-> 0]

\* Line 291 of read_schedule: total_weeks from the rows kept.
v1_total_weeks(rows) == Len(rows) + 1

\* The teams calculate_usage_stats and the scoring loop over.
v1_teams(n_teams, bye) == {team \in 1..n_teams : team # bye}

\* calculate_usage_stats: global_usage[team][table] of the tables as they are when
\* the week starts.
v1_global_usage(usage0, team, t) == get_usage(usage0[t], team)

\* calculate_usage_stats: the tables with the team's minimal usage.
v1_team_least_used(usage0, team) ==
    {t \in DOMAIN usage0 :
        \A u \in DOMAIN usage0 :
            v1_global_usage(usage0, team, t) <= v1_global_usage(usage0, team, u)}

\* Lines 108-109: Week has no attribute tables, so len(self.tables) raises.
v1_ideal_usage_per_table(week) ==
    IF "tables" \in DOMAIN week THEN week.total_weeks \div Len(week.tables)
    ELSE AttributeError

\* Lines 120-123: the last entry of the table's last-used list is a team of the match.
v1_consecutive_penalty(table, match) ==
    IF /\ Len(table.last_used_by) >= 1
       /\ table.last_used_by[Len(table.last_used_by)] \in {match.home_team, match.away_team}
    THEN 100 ELSE 0

\* Lines 126-128: 50 for each team of the match the table is not least-used for.
v1_least_used_penalty(usage0, t, match) ==
    (IF t \in v1_team_least_used(usage0, match.home_team) THEN 0 ELSE 50)
        + (IF t \in v1_team_least_used(usage0, match.away_team) THEN 0 ELSE 50)

\* Lines 131-136: the usage of the table if the match were played on it.
v1_future_usage(usage0, t, match, team) ==
    v1_global_usage(usage0, team, t)
        + (IF team \in {match.home_team, match.away_team} THEN 1 ELSE 0)

\* Lines 139-141.
v1_usage_spread(usage0, t, match, teams) ==
    SetMax({v1_future_usage(usage0, t, match, team) : team \in teams})
        - (0 - SetMax({0 - v1_future_usage(usage0, t, match, team) : team \in teams}))

\* Lines 144-145.
v1_spread_penalty(usage0, t, match, teams) ==
    IF v1_usage_spread(usage0, t, match, teams) > 1
    THEN v1_usage_spread(usage0, t, match, teams) * 10 ELSE 0

v1_abs(x) == IF x < 0 THEN 0 - x ELSE x

\* Lines 148-151: 5 times every deviation from the ideal usage that exceeds 1.
RECURSIVE v1_deviation_penalty(_, _, _, _, _)
v1_deviation_penalty(usage0, t, match, teams, ideal) ==
    IF teams = {} THEN 0
    ELSE LET team == CHOOSE x \in teams : TRUE
             deviation == v1_abs(v1_future_usage(usage0, t, match, team) - ideal)
         IN (IF deviation > 1 THEN deviation * 5 ELSE 0)
                + v1_deviation_penalty(usage0, t, match, teams \ {team}, ideal)

v1_penalties(tabs, usage0, t, match, teams, ideal) ==
    v1_consecutive_penalty(tabs[t], match)
        + v1_least_used_penalty(usage0, t, match)
        + v1_spread_penalty(usage0, t, match, teams)
        + v1_deviation_penalty(usage0, t, match, teams, ideal)

RECURSIVE v1_sum_future(_, _, _, _)
v1_sum_future(usage0, t, match, teams) ==
    IF teams = {} THEN 0
    ELSE LET team == CHOOSE x \in teams : TRUE
         IN v1_future_usage(usage0, t, match, team)
                + v1_sum_future(usage0, t, match, teams \ {team})

\* Lines 154-158: the tuple a table is ranked by.
v1_score(tabs, usage0, t, match, teams, ideal) ==
    <<v1_penalties(tabs, usage0, t, match, teams, ideal),
      v1_usage_spread(usage0, t, match, teams),
      v1_sum_future(usage0, t, match, teams)>>

\* Line 171: min keeps the first of the smallest scores in the order table_scores
\* was filled, which is the iteration order of the set available_tables.
RECURSIVE v1_min(_, _, _, _, _, _, _, _)
v1_min(avail, i, best, tabs, usage0, match, teams, ideal) ==
    IF i > Len(avail) THEN best
    ELSE IF TupleLess(v1_score(tabs, usage0, avail[i], match, teams, ideal),
                      v1_score(tabs, usage0, best, match, teams, ideal))
    THEN v1_min(avail, i + 1, avail[i], tabs, usage0, match, teams, ideal)
    ELSE v1_min(avail, i + 1, best, tabs, usage0, match, teams, ideal)

\* Lines 111-173 of find_best_table: the scoring loop and the choice, for a given
\* ideal_usage_per_table.
v1_best_scored(avail, tabs, usage0, match, teams, ideal) ==
    v1_min(avail, 2, avail[1], tabs, usage0, match, teams, ideal)

\* find_best_table for a match without the bye team.
v1_find_best_table(week, avail, tabs, usage0, match) ==
    IF avail = <<>> THEN NoTable
    ELSE IF v1_ideal_usage_per_table(week) = AttributeError THEN AttributeError
    ELSE v1_best_scored(avail, tabs, usage0, match,
                        v1_teams(week.num_teams, week.bye_team_id),
                        v1_ideal_usage_per_table(week))

\* The loop of Week.assign_tables (lines 75-84) from match i on.
RECURSIVE v1_match_loop(_, _, _, _, _, _)
v1_match_loop(i, week, matches, tabs, usage0, avail) ==
    IF i > Len(matches)
    THEN [matches |-> matches, tables |-> tabs, avail |-> avail, error |-> "none"]
    ELSE IF is_bye_match(matches[i], week.bye_team_id)
    THEN v1_match_loop(i + 1, week, matches, tabs, usage0, avail)
    ELSE LET best_table == v1_find_best_table(week, avail, tabs, usage0, matches[i]) IN
         IF best_table = AttributeError
         THEN [matches |-> matches, tables |-> tabs, avail |-> avail,
               error |-> "attribute_error"]
         ELSE IF best_table = NoTable
         THEN [matches |-> matches, tables |-> tabs, avail |-> avail,
               error |-> "no_table"]
         ELSE v1_match_loop(i + 1, week,
                            [matches EXCEPT ![i].assigned_table = best_table],
                            assign_table(tabs, best_table, matches[i]), usage0,
                            SeqWithout(avail, best_table))

\* calculate_usage_stats, then Week.assign_tables: order is the iteration order of
\* set(tables.values()).
v1_assign_tables(week, tabs, order) ==
    v1_match_loop(1, [week EXCEPT !.total_tables = Len(tabs)], week.matches, tabs, tabs,
                  order)

\* TableAssignmentManager.__init__ of tableAssignments_v1.py.
V1Construct ==
    /\ pc = "new"
    /\ bye_team_id' = cfg_bye
    /\ IF initialize_tables_raises(cfg_tables, cfg_bye, num_teams)
       THEN /\ pc' = "failed"
            /\ error' = "not_enough_tables"
            /\ UNCHANGED <<num_teams, tables, weeks>>
       ELSE /\ tables' = [t \in 1..cfg_tables |-> NewTable]
            /\ num_teams' = Cardinality(teams_of_rows(csv_rows))
            /\ IF read_schedule_raises(num_teams')
               THEN /\ pc' = "failed"
                    /\ error' = "odd_teams"
                    /\ UNCHANGED weeks
               ELSE /\ pc' = "ready"
                    /\ error' = "none"
                    /\ weeks' = [w \in 1..Len(csv_rows) |->
                                    v1_NewWeek(csv_rows[w], cfg_bye, num_teams',
                                               v1_total_weeks(csv_rows))]
    /\ UNCHANGED <<inputs, v0vars, v3vars, failed_week, week_idx, run_no, first_run>>

\* One iteration of assign_all_tables of tableAssignments_v1.py.
V1AssignWeek(order) ==
    \E w \in {week_idx + 1} : \E r \in {v1_assign_tables(weeks[w], tables, order)} :
       /\ weeks' = [weeks EXCEPT ![w] = [@ EXCEPT !.matches = r.matches,
                                                  !.available_tables = SeqRange(r.avail),
                                                  !.total_tables = Len(tables)]]
       /\ tables' = r.tables
       /\ week_idx' = w
       /\ error' = r.error
       /\ failed_week' = IF r.error # "none" THEN w ELSE failed_week
       /\ pc' = after_week(r.error, w, Len(weeks))
       /\ UNCHANGED <<inputs, v0vars, v3vars, bye_team_id, num_teams, run_no, first_run>>

V1AssignNextWeek ==
    /\ pc = "ready"
    /\ week_idx < Len(weeks)
    /\ \E order \in TableOrders(cfg_tables) : V1AssignWeek(order)

NextV1 == V1Construct \/ V1AssignNextWeek

SpecV1 == Init /\ [][NextV1]_vars

\* find_best_table of tableAssignments_v1.py on its own.  In the program every call
\* that has a table to choose from raises at line 108; the scoring can only be
\* observed on a Week object that has the attribute tables.  The tables are as
\* Match.assign_table leaves them after the matches of hist, the week holds the
\* match 1-2, and calculate_usage_stats has just run.
RECURSIVE v1_ledger(_, _)
v1_ledger(hist, tabs) ==
    IF hist = <<>> THEN tabs
    ELSE v1_ledger(Tail(hist), assign_table(tabs, hist[1].table, NewMatch(hist[1].match)))

RECURSIVE v1_histories(_)
v1_histories(n) ==
    IF n = 0 THEN {<<>>}
    ELSE {Append(p[1], [match |-> p[2], table |-> p[3]]) :
            p \in v1_histories(n - 1) \X MatchStrings(MaxTeams) \X (1..MaxTables)}

InitScore ==
    /\ csv_rows = <<<<<<1, 2>>>>>>
    /\ cfg_tables = MaxTables
    /\ cfg_bye = NoBye
    /\ cfg_team_ids = Teams
    /\ first_week_id = 1
    /\ pc = "scoring"
    /\ error = "none"
    /\ failed_week = 0
    /\ bye_team_id = NoBye
    /\ num_teams = MaxTeams
    /\ \E n \in 0..ScoreHistory : \E hist \in v1_histories(n) :
           tables = v1_ledger(hist, [t \in 1..MaxTables |-> NewTable])
    /\ \E n_weeks \in 1..ScoreWeeks :
           weeks = <<[tables |-> [t \in 1..MaxTables |-> t]]
                        @@ v1_NewWeek(csv_rows[1], NoBye, MaxTeams, n_weeks)>>
    /\ week_idx = 0
    /\ run_no = 1
    /\ first_run = <<>>
    /\ V3Start
    /\ V0Start

\* One call of find_best_table for the match of the week; order is the iteration
\* order of the set available_tables, which holds every table.
V1FindBestTable ==
    /\ pc = "scoring"
    /\ \E order \in TableOrders(cfg_tables) :
           weeks' = [weeks EXCEPT ![1].matches[1].assigned_table =
                        v1_find_best_table(weeks[1], order, tables, tables,
                                           weeks[1].matches[1])]
    /\ pc' = "scored"
    /\ UNCHANGED <<inputs, v0vars, v3vars, error, failed_week, bye_team_id, num_teams, tables,
                   week_idx, run_no, first_run>>

NextScore == V1FindBestTable

SpecV1Score == InitScore /\ [][NextScore]_vars

\* ---- tableAssignments_v3.py --------------------------------------------------------
\* A Python list attribute that starts as None: Team.tables_assigned and
\* Match.candidate_tables.
NoneList == [is_none |-> TRUE, items |-> <<>>]

v3_NewMatch(m) ==
    [home_team |-> m[1], away_team |-> m[2], table_assigned |-> NoTable,
     candidate_tables |-> NoneList]

\* Lines 276-285 of read_schedule: a match naming a team that is not in the
\* directory is left out of the week.
v3_read_matches(row, ids) ==
    LET known == SelectSeq(row, LAMBDA m : m[1] \in ids /\ m[2] \in ids)
    IN [i \in 1..Len(known) |-> v3_NewMatch(known[i])]

\* Match.assign_table: table_assigned is set, then the table is appended to the
\* history of the home team and of the away team; appending to None raises.
v3_assign_table(match, table, teams) ==
    IF teams[match.home_team].is_none
    THEN [match |-> [match EXCEPT !.table_assigned = table], teams |-> teams,
          error |-> "AttributeError"]
    ELSE IF teams[match.away_team].is_none
    THEN [match |-> [match EXCEPT !.table_assigned = table],
          teams |-> [teams EXCEPT ![match.home_team].items = Append(@, table)],
          error |-> "AttributeError"]
    ELSE [match |-> [match EXCEPT !.table_assigned = table],
          teams |-> [teams EXCEPT ![match.home_team].items = Append(@, table),
                                  ![match.away_team].items = Append(@, table)],
          error |-> "none"]

\* Lines 107-110: the loop of the first week over the shuffled matches; pop takes
\* the last table of the shuffled list and raises on an empty list.
RECURSIVE v3_first_week_loop(_, _, _, _)
v3_first_week_loop(i, matches, teams, avail) ==
    IF i > Len(matches) THEN [matches |-> matches, teams |-> teams, error |-> "none"]
    ELSE IF avail = <<>>
    THEN [matches |-> matches, teams |-> teams, error |-> "IndexError"]
    ELSE LET r == v3_assign_table(matches[i], avail[Len(avail)], teams) IN
         IF r.error # "none"
         THEN [matches |-> [matches EXCEPT ![i] = r.match], teams |-> r.teams,
               error |-> r.error]
         ELSE v3_first_week_loop(i + 1, [matches EXCEPT ![i] = r.match], r.teams,
                                 SubSeq(avail, 1, Len(avail) - 1))

\* Line 138: the table is the last entry of the team's history (None and the empty
\* list pass).
v3_played_last(history, table) ==
    /\ ~history.is_none
    /\ history.items # <<>>
    /\ history.items[Len(history.items)] = table

\* populate_match_candidate_tables for one permutation, from pair i on.
RECURSIVE v3_populate(_, _, _, _)
v3_populate(i, matches, perm, teams) ==
    IF i > Len(matches) \/ i > Len(perm) THEN [matches |-> matches, result |-> "True"]
    ELSE IF \/ v3_played_last(teams[matches[i].home_team], perm[i])
            \/ v3_played_last(teams[matches[i].away_team], perm[i])
    THEN [matches |-> matches, result |-> "False"]
    ELSE IF matches[i].candidate_tables.is_none
    THEN [matches |-> matches, result |-> "AttributeError"]
    ELSE v3_populate(i + 1,
                     [matches EXCEPT ![i].candidate_tables.items = Append(@, perm[i])],
                     perm, teams)

\* itertools.permutations of the tables 1..n taken k at a time, in its order: the
\* permutations that extend prefix by a table from t on.
RECURSIVE v3_perms_from(_, _, _, _)
v3_perms_from(prefix, t, n, k) ==
    IF Len(prefix) = k THEN <<prefix>>
    ELSE IF t > n THEN <<>>
    ELSE (IF t \in SeqRange(prefix) THEN <<>>
          ELSE v3_perms_from(Append(prefix, t), 1, n, k))
         \o v3_perms_from(prefix, t + 1, n, k)

permutations(n, k) == v3_perms_from(<<>>, 1, n, k)

\* get_permutations: the first permutation that populate accepts ends the search.
RECURSIVE v3_get_permutations(_, _, _, _)
v3_get_permutations(j, perms, matches, teams) ==
    IF j > Len(perms) THEN [matches |-> matches, result |-> "False"]
    ELSE LET r == v3_populate(1, matches, perms[j], teams) IN
         IF r.result = "False"
         THEN v3_get_permutations(j + 1, perms, r.matches, teams)
         ELSE r

\* Match.remove_table on the team histories: pop of None or of an empty list raises.
v3_pop(history) ==
    IF history.is_none THEN [history |-> history, error |-> "AttributeError"]
    ELSE IF history.items = <<>> THEN [history |-> history, error |-> "IndexError"]
    ELSE [history |-> [history EXCEPT !.items = SubSeq(@, 1, Len(@) - 1)],
          error |-> "none"]

\* reset_assignments, from match i on.
RECURSIVE v3_reset_assignments(_, _, _)
v3_reset_assignments(i, matches, teams) ==
    IF i > Len(matches) THEN [matches |-> matches, teams |-> teams, error |-> "none"]
    ELSE IF matches[i].table_assigned = NoTable
    THEN v3_reset_assignments(i + 1, matches, teams)
    ELSE LET cleared == [matches EXCEPT ![i].table_assigned = NoTable]
             h == v3_pop(teams[matches[i].home_team])
             afterHome == [teams EXCEPT ![matches[i].home_team] = h.history]
             a == v3_pop(afterHome[matches[i].away_team])
         IN IF h.error # "none"
            THEN [matches |-> cleared, teams |-> teams, error |-> h.error]
            ELSE IF a.error # "none"
            THEN [matches |-> cleared, teams |-> afterHome, error |-> a.error]
            ELSE v3_reset_assignments(i + 1, cleared,
                                      [afterHome EXCEPT ![matches[i].away_team] = a.history])

\* Week.assign_tables_to_matches: result is "True", "False" or the exception raised.
v3_assign_tables_to_matches(matches, n_tables, teams) ==
    IF n_tables = 0
    THEN [matches |-> matches, teams |-> teams, result |-> "ZeroDivisionError"]
    ELSE LET found == v3_get_permutations(1, permutations(n_tables, Len(matches)),
                                          matches, teams)
         IN IF found.result # "False"
            THEN [matches |-> found.matches, teams |-> teams, result |-> found.result]
            ELSE LET reset == v3_reset_assignments(1, found.matches, teams)
                 IN [matches |-> reset.matches, teams |-> reset.teams,
                     result |-> IF reset.error # "none" THEN reset.error ELSE "False"]

\* Week.assign_tables.  table_order and match_order are the outcomes of the two
\* random.shuffle calls of the first week.  A search that returned False only
\* prints a warning (lines 113-114): the call returns normally.
v3_assign_tables(week, n_tables, teams, table_order, match_order) ==
    IF week.week_id = 1
    THEN LET r == v3_first_week_loop(
                      1, [i \in 1..Len(week.matches) |-> week.matches[match_order[i]]],
                      teams, table_order)
         IN [matches |-> r.matches, teams |-> r.teams, error |-> r.error,
             infeasible |-> FALSE]
    ELSE LET r == v3_assign_tables_to_matches(week.matches, n_tables, teams)
         IN [matches |-> r.matches, teams |-> r.teams,
             error |-> IF r.result \in {"True", "False"} THEN "none" ELSE r.result,
             infeasible |-> r.result = "False"]

Shuffles(n) == TableOrders(n)

InitV3 ==
    /\ csv_rows \in Schedules \cup RepeatedSchedules
    /\ cfg_tables \in 1..MaxTables
    /\ cfg_bye \in {NoBye} \cup (1..MaxTeams)
    /\ cfg_team_ids \in {1..n : n \in 0..MaxTeams}
    /\ first_week_id \in {1, 2}
    /\ V2Start
    /\ V3Start
    /\ V0Start

\* TableAssignmentManager.__init__: initialize_from_config, then read_schedule.
V3Construct ==
    /\ v3_pc = "new"
    /\ v3_pc' = "ready"
    /\ v3_teams' = [t \in cfg_team_ids |-> NoneList]
    /\ v3_weeks' = [w \in 1..Len(csv_rows) |->
                       [week_id |-> first_week_id + w - 1,
                        matches |-> v3_read_matches(csv_rows[w], cfg_team_ids)]]
    /\ UNCHANGED <<inputs, v0vars, v2vars, v3_error, v3_failed_week, v3_week_idx, v3_infeasible>>

\* One iteration of the loop of assign_all_tables; after the last week
\* output_table_stats writes the result.
V3AssignWeek(table_order, match_order) ==
    \E w \in {v3_week_idx + 1} :
    \E r \in {v3_assign_tables(v3_weeks[w], cfg_tables, v3_teams, table_order,
                               match_order)} :
        /\ v3_weeks' = [v3_weeks EXCEPT ![w].matches = r.matches]
        /\ v3_teams' = r.teams
        /\ v3_week_idx' = w
        /\ v3_error' = r.error
        /\ v3_failed_week' = IF r.error # "none" THEN w ELSE v3_failed_week
        /\ v3_infeasible' = IF r.infeasible THEN v3_infeasible \cup {w} ELSE v3_infeasible
        /\ v3_pc' = after_week(r.error, w, Len(v3_weeks))
        /\ UNCHANGED <<inputs, v0vars, v2vars>>

V3AssignNextWeek ==
    /\ v3_pc = "ready"
    /\ v3_week_idx < Len(v3_weeks)
    /\ \E table_order \in Shuffles(cfg_tables) :
           \E match_order \in Shuffles(Len(v3_weeks[v3_week_idx + 1].matches)) :
               V3AssignWeek(table_order, match_order)

NextV3 == V3Construct \/ V3AssignNextWeek

SpecV3 == InitV3 /\ [][NextV3]_vars

\* ---- tableAssignments.py -------------------------------------------------------------
\* itertools.combinations of the tables taken k at a time, in its order: the
\* combinations that extend prefix by a table at position t or later.
RECURSIVE v0_combos_from(_, _, _)
v0_combos_from(prefix, t, k) ==
    IF Len(prefix) = k THEN <<prefix>>
    ELSE IF t > Len(table_pairs) THEN <<>>
    ELSE v0_combos_from(Append(prefix, table_pairs[t]), t + 1, k)
             \o v0_combos_from(prefix, t + 1, k)

combinations(k) == v0_combos_from(<<>>, 1, k)

\* deque(maxlen=20).append
v0_append(h, x) == IF Len(h) = 20 THEN Append(Tail(h), x) ELSE Append(h, x)

\* Lines 49-51: the table is not the last one of either team, and the two teams'
\* usage counts of it differ by at most 3.
v0_fits(table, match, st) ==
    /\ st.history[match[1]] = <<>>
           \/ table # st.history[match[1]][Len(st.history[match[1]])]
    /\ st.history[match[2]] = <<>>
           \/ table # st.history[match[2]][Len(st.history[match[2]])]
    /\ v1_abs(st.usage[match[1]][table] - st.usage[match[2]][table]) <= 3

\* Lines 52-57 for match i of the week.
v0_record(table, i, match, st) ==
    [week_assignments |-> [st.week_assignments EXCEPT ![i] = table],
     usage |-> [st.usage EXCEPT ![match[1]][table] = @ + 1, ![match[2]][table] = @ + 1],
     history |-> [st.history EXCEPT ![match[1]] = v0_append(@, table),
                                    ![match[2]] = v0_append(@, table)],
     used_table |-> table]

\* Lines 46-58: the first table of the combination that fits is recorded, and break
\* leaves the loop over the tables of this combination.
RECURSIVE v0_table_loop(_, _, _, _, _)
v0_table_loop(combo, j, i, match, st) ==
    IF j > Len(combo) THEN st
    ELSE IF v0_fits(combo[j], match, st) THEN v0_record(combo[j], i, match, st)
    ELSE v0_table_loop(combo, j + 1, i, match, st)

\* Line 45: the loop over the combinations the iterator still holds.
RECURSIVE v0_combo_loop(_, _, _, _, _)
v0_combo_loop(combos, c, i, match, st) ==
    IF c > Len(combos) THEN st
    ELSE v0_combo_loop(combos, c + 1, i, match, v0_table_loop(combos[c], 1, i, match, st))

\* Lines 41-61 from match i on.  combos is what the iterator available_tables_combo
\* still holds; the loop of line 45 uses it up.  remove is not an attribute of the
\* iterator, so line 44 raises.  Line 60 appends an entry after every match.
RECURSIVE v0_match_loop(_, _, _, _, _, _)
v0_match_loop(i, w, matches, combos, st, entries) ==
    IF i > Len(matches) THEN [st |-> st, entries |-> entries, error |-> "none"]
    ELSE IF st.used_table # NoTable
    THEN [st |-> st, entries |-> entries, error |-> "AttributeError"]
    ELSE LET after == v0_combo_loop(combos, 1, i, matches[i], st)
         IN v0_match_loop(i + 1, w, matches, <<>>, after,
                          Append(entries, [week |-> w,
                                           week_assignments |-> after.week_assignments]))

\* read_schedule: the rows of the file (the model's files have no "No Play" rows).
V0ReadSchedule ==
    /\ v0_pc = "new"
    /\ v0_pc' = "ready"
    /\ v0_schedule' = csv_rows
    /\ UNCHANGED <<inputs, v2vars, v3vars, v0_error, v0_assignments, v0_usage, v0_history>>

\* One iteration of the while loop of assign_tables (lines 32-61): the first row is
\* popped from the list and its matches are gone through.  When the list is empty
\* the function returns and write_assignments writes the result.
V0AssignWeek ==
    /\ v0_pc = "ready"
    /\ v0_schedule # <<>>
    /\ \E w \in {Len(csv_rows) - Len(v0_schedule) + 1} :
       \E r \in {v0_match_loop(1, w, v0_schedule[1], combinations(Len(v0_schedule[1])),
                               [week_assignments |-> [i \in 1..Len(v0_schedule[1]) |-> NoTable],
                                usage |-> v0_usage, history |-> v0_history,
                                used_table |-> NoTable],
                               <<>>)} :
          /\ v0_schedule' = Tail(v0_schedule)
          /\ v0_assignments' = v0_assignments \o r.entries
          /\ v0_usage' = r.st.usage
          /\ v0_history' = r.st.history
          /\ v0_error' = r.error
          /\ v0_pc' = IF r.error # "none" THEN "failed"
                      ELSE IF v0_schedule' = <<>> THEN "done" ELSE "ready"
    /\ UNCHANGED <<inputs, v2vars, v3vars>>

NextV0 == V0ReadSchedule \/ V0AssignWeek

SpecV0 == Init /\ [][NextV0]_vars

\* ---- notions the properties are stated in -----------------------------------------
\* The weeks Week.assign_tables has been called for.
ProcessedWeeks == 1..week_idx

MatchIdx(w) == 1..Len(weeks[w].matches)

AllMatches ==
    UNION {{<<w, i>> : i \in MatchIdx(w)} : w \in 1..Len(weeks)}

TableOf(p) == weeks[p[1]].matches[p[2]].assigned_table

TeamsOfMatch(p) == {weeks[p[1]].matches[p[2]].home_team, weeks[p[1]].matches[p[2]].away_team}

IsBye(p) == bye_team_id \in TeamsOfMatch(p)

NonByeMatches(w) == {i \in MatchIdx(w) : ~IsBye(<<w, i>>)}

TableIds == 1..Len(tables)

\* C1: no two matches of the same week have the same assigned table.
C1_Exclusive ==
    \A p \in AllMatches : \A q \in AllMatches :
        (p[1] = q[1] /\ p[2] # q[2] /\ TableOf(p) # NoTable) => TableOf(p) # TableOf(q)

C1_Witness ==
    \E p \in AllMatches : \E q \in AllMatches :
        /\ p[1] = q[1] /\ p[2] # q[2]
        /\ TableOf(p) # NoTable /\ TableOf(q) # NoTable
        /\ pc = "done"

\* The non-bye match of week w the team plays in, as a set (empty or one match).
PlaysIn(w, team) ==
    {p \in AllMatches : p[1] = w /\ team \in TeamsOfMatch(p) /\ ~IsBye(p)}

\* C2: a team's tables in two consecutive weeks differ unless the later week was
\* reported as failed.
C2_NoRepeat ==
    \A team \in Teams : \A w \in ProcessedWeeks :
        (w > 1 /\ failed_week # w /\ team # bye_team_id) =>
            \A p \in PlaysIn(w - 1, team) : \A q \in PlaysIn(w, team) :
                TableOf(p) # TableOf(q)

\* The usage a table has for a team from the matches of the weeks in W.
UsageFrom(W, t, team) ==
    Cardinality({p \in AllMatches : p[1] \in W /\ TableOf(p) = t /\ team \in TeamsOfMatch(p)})

\* C3: a week whose assign_tables failed has no assigned match and changed no table.
C3_AllOrNothing ==
    failed_week > 0 =>
        /\ \A i \in MatchIdx(failed_week) : TableOf(<<failed_week, i>>) = NoTable
        /\ \A t \in TableIds : \A team \in Teams :
               tables[t].team_usage[team] = UsageFrom(1..(failed_week - 1), t, team)

\* The teams the matches assigned to table t append to its last-used list, in the
\* order of the weeks and of the matches in a week.
RECURSIVE ExpectedLastUsed(_, _, _)
ExpectedLastUsed(t, w, i) ==
    IF w > Len(weeks) THEN <<>>
    ELSE IF i > Len(weeks[w].matches) THEN ExpectedLastUsed(t, w + 1, 1)
    ELSE (IF weeks[w].matches[i].assigned_table = t
          THEN <<weeks[w].matches[i].home_team, weeks[w].matches[i].away_team>>
          ELSE <<>>) \o ExpectedLastUsed(t, w, i + 1)

\* C5: the second run gives every match the table the first run gave it.
C5_SameTables ==
    (run_no = 2 /\ pc \in {"done", "failed"}) =>
        \A p \in AllMatches :
            TableOf(p) = first_run[p[1]].matches[p[2]].assigned_table

\* C6: a table's usage count for a team is the number of the team's matches assigned
\* to the table, and its last-used list holds both teams of each such match.
C6_UsageCounts ==
    \A t \in TableIds :
        /\ \A team \in Teams :
               tables[t].team_usage[team] = UsageFrom(1..Len(weeks), t, team)
        /\ tables[t].last_used_by = ExpectedLastUsed(t, 1, 1)

C6_Witness ==
    /\ pc = "done"
    /\ week_idx = 2
    /\ \E t \in TableIds : \E team \in Teams : tables[t].team_usage[team] = 2

\* C7: an assigned table is never changed, and after an abort in week k the matches
\* of the later weeks have no table.
C7_AssignedOnce ==
    /\ [][\A p \in AllMatches : TableOf(p) # NoTable => TableOf(p)' = TableOf(p)]_vars
    /\ [](failed_week > 0 =>
            \A p \in AllMatches : p[1] > failed_week => TableOf(p) = NoTable)

C7_Witness ==
    /\ failed_week = 1
    /\ Len(weeks) = 2
    /\ \E p \in AllMatches : p[1] = 1 /\ TableOf(p) # NoTable

\* C8: a match with the bye team gets no table, takes none from the week's available
\* set and adds no usage; the other matches choose from the complete pool.
C8_ByeSkipped ==
    /\ \A p \in AllMatches : IsBye(p) => TableOf(p) = NoTable
    /\ \A t \in TableIds :
           bye_team_id # NoBye =>
               /\ tables[t].team_usage[bye_team_id] = 0
               /\ \A k \in 1..Len(tables[t].last_used_by) :
                      tables[t].last_used_by[k] # bye_team_id
    /\ \A w \in ProcessedWeeks :
           /\ weeks[w].available_tables =
                  TableIds \ {TableOf(<<w, i>>) : i \in NonByeMatches(w)}
           /\ Cardinality(NonByeMatches(w)) <= cfg_tables =>
                  /\ \A i \in NonByeMatches(w) : TableOf(<<w, i>>) # NoTable
                  /\ Cardinality(weeks[w].available_tables)
                         = cfg_tables - Cardinality(NonByeMatches(w))
                  /\ failed_week # w

\* 3 tables, 2 real matches and the bye match: one table stays unused.
C8_Witness ==
    /\ week_idx >= 1
    /\ cfg_tables = 3
    /\ Len(weeks[1].matches) = 3
    /\ Cardinality(NonByeMatches(1)) = 2
    /\ Cardinality(weeks[1].available_tables) = 1
    /\ \A i \in NonByeMatches(1) : TableOf(<<1, i>>) # NoTable

\* The number of non-bye matches of a row of the file.
NonByeOfRow(row) ==
    Cardinality({i \in 1..Len(row) : row[i][1] # cfg_bye /\ row[i][2] # cfg_bye})

PoolTooSmall == \E w \in 1..Len(csv_rows) : NonByeOfRow(csv_rows[w]) > cfg_tables

\* C9: a pool smaller than a week needs is rejected during construction.
C9_PoolChecked ==
    (pc # "new" /\ PoolTooSmall) =>
        pc = "failed" /\ week_idx = 0 /\ error \in {"not_enough_tables", "odd_teams"}

NonByeTeams == teams_of_rows(csv_rows) \ {cfg_bye}

C4_StopsAtInfeasible ==
    \A k \in v3_infeasible :
        v3_week_idx = k /\ v3_pc = "failed" /\ v3_failed_week = k

\* The matches of the file that name a team absent from the team directory.
UnknownTeamMatches ==
    {p \in UNION {{<<w, i>> : i \in 1..Len(csv_rows[w])} : w \in 1..Len(csv_rows)} :
        ~(TeamsOfRow(<<csv_rows[p[1]][p[2]]>>) \subseteq cfg_team_ids)}

\* C11: a schedule with a match naming a team absent from the directory makes
\* read_schedule abort before any table is assigned; no timeline is built that
\* leaves the match out.
C11_UnknownTeamRejected ==
    (v3_pc # "new" /\ UnknownTeamMatches # {}) =>
        v3_pc = "failed" /\ v3_week_idx = 0 /\ v3_weeks = <<>>

\* Scenario B: 2 tables, no bye, 4 teams, weeks 1 and 2 with the same two matches.
SameMatchesTwice ==
    /\ cfg_tables = 2
    /\ cfg_bye = NoBye
    /\ Len(csv_rows) = 2
    /\ Len(csv_rows[1]) = 2
    /\ Len(csv_rows[2]) = 2
    /\ Cardinality(teams_of_rows(csv_rows)) = 4
    /\ {TeamsOfRow(<<csv_rows[1][i]>>) : i \in 1..2}
           = {TeamsOfRow(<<csv_rows[2][i]>>) : i \in 1..2}

\* C12: with 4 teams, no bye, 2 tables and the same two matches in weeks 1 and 2
\* (in any order, home and away in any order), every match of week 2 gets the table
\* the other match had in week 1, whichever tables week 1 received.
C12_Swap ==
    (SameMatchesTwice /\ week_idx = 2) =>
        \A i \in MatchIdx(2) : \A j \in MatchIdx(1) :
            /\ TableOf(<<2, i>>) # NoTable
            /\ TeamsOfMatch(<<2, i>>) # TeamsOfMatch(<<1, j>>) =>
                   TableOf(<<2, i>>) = TableOf(<<1, j>>)

C12_Witness ==
    /\ SameMatchesTwice
    /\ pc = "done"
    /\ week_idx = 2
    /\ TableOf(<<1, 1>>) = 2
    /\ TableOf(<<2, 1>>) = 1

\* Scenario C: teams 1..4 in the directory, no bye, 2 tables, weeks 1, 2 and 3 with
\* the same two matches.
ScenarioC ==
    /\ cfg_tables = 2
    /\ cfg_bye = NoBye
    /\ first_week_id = 1
    /\ cfg_team_ids = 1..4
    /\ csv_rows = [w \in 1..3 |-> <<<<1, 2>>, <<3, 4>>>>]

v3_TableOf(w, i) == v3_weeks[w].matches[i].table_assigned

\* C13: the run on scenario C ends with weeks 1 and 2 assigned, week 2 the swap of
\* week 1, and week 3 reported infeasible.
C13_ThirdWeekInfeasible ==
    (ScenarioC /\ v3_pc \in {"done", "failed"}) =>
        /\ 3 \in v3_infeasible
        /\ \A w \in 1..2 : \A i \in 1..2 : v3_TableOf(w, i) # NoTable
        /\ v3_TableOf(1, 1) = v3_TableOf(2, 2)
        /\ v3_TableOf(1, 2) = v3_TableOf(2, 1)

\* C14: after the first week (week id 1) was processed with enough tables, its
\* matches are in schedule order and match i has table i.
C14_FirstWeekAscending ==
    (first_week_id = 1 /\ v3_week_idx >= 1 /\ Len(v3_weeks[1].matches) <= cfg_tables) =>
        \A i \in 1..Len(v3_weeks[1].matches) :
            /\ v3_weeks[1].matches[i].home_team
                   = v3_read_matches(csv_rows[1], cfg_team_ids)[i].home_team
            /\ v3_weeks[1].matches[i].away_team
                   = v3_read_matches(csv_rows[1], cfg_team_ids)[i].away_team
            /\ v3_TableOf(1, i) = i

\* The last week processed was resolved: the first week with a table for each of its
\* matches, or a later week whose search returned True.
v3_LastWeekResolved ==
    /\ v3_week_idx >= 1
    /\ IF v3_weeks[v3_week_idx].week_id = 1
       THEN Len(v3_weeks[v3_week_idx].matches) <= cfg_tables
       ELSE v3_week_idx \notin v3_infeasible /\ v3_failed_week # v3_week_idx

v3_LastTableOf(team) ==
    IF v3_teams[team].is_none \/ v3_teams[team].items = <<>> THEN NoTable
    ELSE v3_teams[team].items[Len(v3_teams[team].items)]

\* C15: every match of a resolved week has table_assigned set, and that table is the
\* last entry of the history of both of its teams.
C15_ResolvedWeekMarked ==
    v3_LastWeekResolved =>
        \A i \in 1..Len(v3_weeks[v3_week_idx].matches) :
            /\ v3_TableOf(v3_week_idx, i) # NoTable
            /\ v3_LastTableOf(v3_weeks[v3_week_idx].matches[i].home_team)
                   = v3_TableOf(v3_week_idx, i)
            /\ v3_LastTableOf(v3_weeks[v3_week_idx].matches[i].away_team)
                   = v3_TableOf(v3_week_idx, i)

\* Some assignment of pairwise distinct tables to the matches of week w gives no
\* team the table it was assigned most recently.
v3_Feasible(w) ==
    \E f \in [1..Len(v3_weeks[w].matches) -> 1..cfg_tables] :
        /\ \A i, j \in DOMAIN f : f[i] = f[j] => i = j
        /\ \A i \in DOMAIN f :
               /\ f[i] # v3_LastTableOf(v3_weeks[w].matches[i].home_team)
               /\ f[i] # v3_LastTableOf(v3_weeks[w].matches[i].away_team)

\* C16: for a week after the first, assign_tables_to_matches returns True exactly
\* when a feasible assignment exists, and False only when none exists.
C16_SearchExact ==
    (v3_week_idx >= 1 /\ v3_weeks[v3_week_idx].week_id # 1) =>
        /\ v3_Feasible(v3_week_idx) <=>
               (v3_week_idx \notin v3_infeasible /\ v3_failed_week # v3_week_idx)
        /\ v3_week_idx \in v3_infeasible => ~v3_Feasible(v3_week_idx)

\* C17: a match with the configured bye team never has a table, and the history of
\* the bye team has no entry.
C17_ByeNeverAssigned ==
    /\ \A w \in 1..Len(v3_weeks) : \A i \in 1..Len(v3_weeks[w].matches) :
           cfg_bye \in {v3_weeks[w].matches[i].home_team, v3_weeks[w].matches[i].away_team}
               => v3_TableOf(w, i) = NoTable
    /\ cfg_bye \in DOMAIN v3_teams => v3_teams[cfg_bye].items = <<>>

\* ceil(a / b) for b > 0.
CeilDiv(a, b) == (a + b - 1) \div b

\* C20: in every week in which find_best_table had a table to choose for a match, the
\* ideal usage per table it computed is ceil(W / T), W the number of weeks loaded and
\* T the number of tables.
C20_IdealUsage ==
    \A w \in ProcessedWeeks :
        NonByeMatches(w) # {} =>
            v1_ideal_usage_per_table(weeks[w]) = CeilDiv(Len(weeks), cfg_tables)

\* The values find_best_table scores the tables with for the match of the week.
ScoredMatch == weeks[1].matches[1]

ScoredTeams == v1_teams(weeks[1].num_teams, weeks[1].bye_team_id)

PenaltyOf(t) ==
    v1_penalties(tables, tables, t, ScoredMatch, ScoredTeams,
                 v1_ideal_usage_per_table(weeks[1]))

ScoreOf(t) ==
    v1_score(tables, tables, t, ScoredMatch, ScoredTeams,
             v1_ideal_usage_per_table(weeks[1]))

LeastUsedForBoth(t) ==
    /\ t \in v1_team_least_used(tables, ScoredMatch.home_team)
    /\ t \in v1_team_least_used(tables, ScoredMatch.away_team)

NextTimeline == NextV3 \/ NextV0

SpecTimeline == InitV3 /\ [][NextTimeline]_vars

\* The matches of a week of the third variant as (home, away) pairs, in list order.
v3_MatchOrder(matches) ==
    [i \in 1..Len(matches) |-> <<matches[i].home_team, matches[i].away_team>>]

\* C21: assigning tables leaves the timeline unchanged: once assign_tables of
\* tableAssignments.py has returned, the schedule list it was given still holds the
\* weeks that were read, in their order, and after Week.assign_tables of the third
\* variant the matches of the week are in the order in which they were read.
C21_TimelineUnchanged ==
    /\ v0_pc = "done" => v0_schedule = csv_rows
    /\ \A w \in 1..v3_week_idx :
           v3_MatchOrder(v3_weeks[w].matches)
               = v3_MatchOrder(v3_read_matches(csv_rows[w], cfg_team_ids))

\* C22: assign_tables of tableAssignments.py appends the entry of a week to the
\* returned assignments only if every match of that week was given a table, and it
\* appends at most one entry per week.
C22_EntryPerCompleteWeek ==
    /\ \A e \in 1..Len(v0_assignments) :
           \A i \in 1..Len(v0_assignments[e].week_assignments) :
               v0_assignments[e].week_assignments[i] # NoTable
    /\ \A e \in 1..Len(v0_assignments) : \A f \in 1..Len(v0_assignments) :
           v0_assignments[e].week = v0_assignments[f].week => e = f

\* Total of a team's usage counts over the tables 1..n.
RECURSIVE V0TotalUpTo(_, _)
V0TotalUpTo(team, n) ==
    IF n = 0 THEN 0 ELSE v0_usage[team][n] + V0TotalUpTo(team, n - 1)

\* The matches of the weeks taken off the schedule so far that a team plays in and
\* that some entry of the assignments shows with a table.
V0AssignedMatches(team) ==
    {wi \in (1..(Len(csv_rows) - Len(v0_schedule))) \X (1..MaxScheduleMatches) :
        /\ wi[2] <= Len(csv_rows[wi[1]])
        /\ team \in {csv_rows[wi[1]][wi[2]][1], csv_rows[wi[1]][wi[2]][2]}
        /\ \E e \in 1..Len(v0_assignments) :
               /\ v0_assignments[e].week = wi[1]
               /\ v0_assignments[e].week_assignments[wi[2]] # NoTable}

\* C23: in assign_tables of tableAssignments.py each match is assigned at most once:
\* every processed match that has a table accounts for exactly one unit of usage
\* of each of its two teams and for exactly one entry of each team's history.
C23_MatchRecordedOnce ==
    v0_pc # "new" =>
        \A team \in Teams :
            /\ V0TotalUpTo(team, Len(table_pairs)) = Cardinality(V0AssignedMatches(team))
            /\ Len(v0_history[team]) = Cardinality(V0AssignedMatches(team))

\* The ledger as match i of a week found it: the records of the start of the week
\* with the assignments of the earlier matches of the week made.
RECURSIVE LedgerBefore(_, _, _)
LedgerBefore(i, matches, week_start) ==
    IF i = 1 THEN week_start
    ELSE IF matches[i - 1].assigned_table = NoTable
    THEN LedgerBefore(i - 1, matches, week_start)
    ELSE assign_table(LedgerBefore(i - 1, matches, week_start),
                      matches[i - 1].assigned_table, matches[i - 1])

\* The tables still available when match i of the week is considered.
AvailableAt(i, matches) ==
    TableIds \ {matches[j].assigned_table : j \in 1..(i - 1)}

\* C24: in Week.assign_tables of the second variant the ranking values of a table
\* considered for a match are those of the ledger of the start of the week: the
\* assignments made earlier in the week (which add up to the ledger the week
\* leaves) change no value of a table that is still available.
C24_ValuesFromWeekStart ==
    [][week_idx' = week_idx + 1 =>
          \A matches \in {weeks'[week_idx'].matches} :
              /\ LedgerBefore(Len(matches) + 1, matches, tables) = tables'
              /\ \A i \in 1..Len(matches) :
                     \A found \in {LedgerBefore(i, matches, tables)} :
                         \A t \in AvailableAt(i, matches) :
                             current_value(found[t], matches[i])
                                 = current_value(tables[t], matches[i])]_vars

\* Week 2 is done, and a match of it took a table that carried usage from week 1
\* after an earlier match of the week had taken another table.
C24_Witness ==
    /\ week_idx = 2
    /\ \E i \in MatchIdx(2) : \E j \in MatchIdx(2) :
           /\ j < i
           /\ TableOf(<<2, j>>) # NoTable
           /\ TableOf(<<2, i>>) # NoTable
           /\ get_total_usage(tables[TableOf(<<2, i>>)]) > 2

\* The two teams of the match most recently assigned to a table: Match.assign_table
\* records the home team, then the away team.
LastMatchTeams(table) ==
    {table.last_used_by[Len(table.last_used_by) - 1],
     table.last_used_by[Len(table.last_used_by)]}

\* C25: was_recently_used_by of a table returns a value greater than 0 for each of
\* the two teams of the match most recently assigned to the table and 0 for every
\* other team, and raises for none.
C25_RecentForBothTeams ==
    \A t \in TableIds :
        tables[t].last_used_by # <<>> =>
            \A team \in Teams :
                IF team \in LastMatchTeams(tables[t])
                THEN was_recently_used_by(tables[t], team) > 0
                ELSE was_recently_used_by(tables[t], team) = 0

\* C26: Week.assign_tables of the first class-based variant, called after
\* calculate_usage_stats for a week whose non-bye matches do not outnumber the
\* tables, finishes without raising and leaves every non-bye match of the week with
\* an assigned table.
C26_WeekCompletes ==
    \A w \in ProcessedWeeks :
        Cardinality(NonByeMatches(w)) <= Len(tables) =>
            /\ failed_week # w
            /\ \A i \in NonByeMatches(w) : TableOf(<<w, i>>) # NoTable

====
